---- MODULE Spec2Model ----
(***************************************************************************)
(* Model of the alkane storage dump server (src/index.ts).  The file holds *)
(* two variants of the server: variant 1 (dumpAlkane / runLdbScan /        *)
(* spawnCapture / groupResults, lines 1-342) and variant 2 (dump / run /   *)
(* aggregate, lines 383-649).  Both are modelled; the variable `variant`   *)
(* says which one serves the request.                                      *)
(*                                                                         *)
(* Buffers and strings are sequences of byte values 0..255; ASCII text is  *)
(* written as its bytes.  BigInt values are little-endian sequences of     *)
(* base-256 digits without high zero digits (<<>> is zero), so that values *)
(* of 2^128 and more are represented exactly.                              *)
(***************************************************************************)
EXTENDS Integers, Sequences, FiniteSets, TLC

\* ------------------------------------------------------------------ bounds
\* longest standard output of one subprocess, in lines
MaxOut == 2
\* longest sequence of raw pairs handed to the aggregator
MaxRecs == 3
\* longest tail appended to a prefix to form a probed store key
MaxTail == 2

\* ------------------------------------------------------------- byte codec
\* Buffer.alloc(16)
U128Bytes == 16

IsDigit(c) == c >= 48 /\ c <= 57

IsHexDigit(c) == IsDigit(c) \/ (c >= 97 /\ c <= 102) \/ (c >= 65 /\ c <= 70)

ToLowerChar(c) == IF c >= 65 /\ c <= 90 THEN c + 32 ELSE c

toLowerCase(s) == [i \in 1..Len(s) |-> ToLowerChar(s[i])]

\* x * m + c on little-endian base-256 digits
RECURSIVE MulAdd(_, _, _)
MulAdd(x, m, c) ==
  IF x = <<>>
  THEN IF c = 0 THEN <<>> ELSE <<c % 256>> \o MulAdd(<<>>, m, c \div 256)
  ELSE LET t == Head(x) * m + c
       IN <<t % 256>> \o MulAdd(Tail(x), m, t \div 256)

RECURSIVE BigIntFrom(_, _)
BigIntFrom(acc, ds) ==
  IF ds = <<>> THEN acc
  ELSE BigIntFrom(MulAdd(acc, 10, Head(ds) - 48), Tail(ds))

\* BigInt(m[1]) of a string of decimal digits
BigInt(ds) == BigIntFrom(<<>>, ds)

\* for (i = 0; i < 16; i++) { b[i] = Number(x & 0xffn); x >>= 8n; }
u128le(n) == [i \in 1..U128Bytes |-> IF i <= Len(n) THEN n[i] ELSE 0]

\* for (i = 15; i >= 0; i--) { b[i] = Number(x & 0xffn); x >>= 8n; }
u128be(n) ==
  [i \in 1..U128Bytes |->
     LET j == U128Bytes + 1 - i IN IF j <= Len(n) THEN n[j] ELSE 0]

HexChar(n) == IF n < 10 THEN 48 + n ELSE 87 + n

RECURSIVE HexOf(_)
HexOf(b) ==
  IF b = <<>> THEN <<>>
  ELSE <<HexChar(Head(b) \div 16), HexChar(Head(b) % 16)>> \o HexOf(Tail(b))

\* "0x" + buf.toString("hex")
toHex(b) == <<48, 120>> \o HexOf(b)

HexVal(c) == IF IsDigit(c) THEN c - 48 ELSE ToLowerChar(c) - 87

\* Buffer.from(s, "hex"): whole pairs of hex digits, up to the first that is not
RECURSIVE BufferFromHex(_)
BufferFromHex(s) ==
  IF Len(s) < 2 \/ ~IsHexDigit(s[1]) \/ ~IsHexDigit(s[2]) THEN <<>>
  ELSE <<HexVal(s[1]) * 16 + HexVal(s[2])>> \o BufferFromHex(SubSeq(s, 3, Len(s)))

\* h.replace(/^0x/i, "")
Strip0x(h) ==
  IF Len(h) >= 2 /\ h[1] = 48 /\ ToLowerChar(h[2]) = 120
  THEN SubSeq(h, 3, Len(h)) ELSE h

fromHex(h) == BufferFromHex(Strip0x(h))

\* buf.length > 0 && every byte b >= 0x20 && b < 0x7f
isPrintable(b) == Len(b) > 0 /\ \A i \in 1..Len(b) : b[i] >= 32 /\ b[i] < 127

\* --------------------------------------------------------- key derivation
\* "/alkanes/"
AlkanesNs == <<47, 97, 108, 107, 97, 110, 101, 115, 47>>

\* "/storage"
StorageMarker == <<47, 115, 116, 111, 114, 97, 103, 101>>

\* positions of the colon of /^(\d+):(\d+)$/ (at most one)
ColonSplits(s) ==
  {c \in 1..Len(s) :
     /\ s[c] = 58
     /\ c > 1
     /\ c < Len(s)
     /\ \A i \in 1..Len(s) : i # c => IsDigit(s[i])}

\* /^\d+:\d+$/.test(id)
MatchesIdRe(s) == ColonSplits(s) # {}

\* [BigInt(m[1]), BigInt(m[2])]; the callers have tested the pattern
parseAlkaneId(s) ==
  LET c == CHOOSE c \in ColonSplits(s) : TRUE
  IN <<BigInt(SubSeq(s, 1, c - 1)), BigInt(SubSeq(s, c + 1, Len(s)))>>

Enc(n, endian) == IF endian = "be" THEN u128be(n) ELSE u128le(n)

makePrefix(id, endian) ==
  LET ab == parseAlkaneId(id)
  IN AlkanesNs \o Enc(ab[1], endian) \o Enc(ab[2], endian) \o StorageMarker

\* toHex(prefix)
ScanFrom(pref) == toHex(pref)

\* the upper bound built with 0x7f
ScanToLow(pref) == toHex(pref \o <<127>>)

\* toHex(Buffer.concat([prefix, Buffer.from([0xff])]))
ScanTo(pref) == toHex(pref \o <<255>>)

\* whether the BigInt fits in 128 bits unsigned
FitsU128(n) == Len(n) <= U128Bytes

\* lexicographic byte order of the store's keys
RECURSIVE LexLess(_, _)
LexLess(a, b) ==
  IF b = <<>> THEN FALSE
  ELSE IF a = <<>> THEN TRUE
  ELSE IF Head(a) # Head(b) THEN Head(a) < Head(b)
  ELSE LexLess(Tail(a), Tail(b))

\* the scan tool's range: from inclusive, to exclusive
InScan(k, fromH, toH) == ~LexLess(k, fromHex(fromH)) /\ LexLess(k, fromHex(toH))

HasPrefix(k, p) == Len(k) >= Len(p) /\ SubSeq(k, 1, Len(p)) = p

\* ------------------------------------------------------------------ inputs
Dec(ds) == [i \in 1..Len(ds) |-> ds[i] + 48]

\* "340282366920938463463374607431768211456" (2^128) and its successor
Pow128 ==
  Dec(<<3,4,0,2,8,2,3,6,6,9,2,0,9,3,8,4,6,3,4,6,3,3,7,4,6,0,7,4,3,1,7,6,8,2,1,1,4,5,6>>)

Pow128Plus1 ==
  Dec(<<3,4,0,2,8,2,3,6,6,9,2,0,9,3,8,4,6,3,4,6,3,3,7,4,6,0,7,4,3,1,7,6,8,2,1,1,4,5,7>>)

\* "340282366920938463463374607431768211455" (2^128 - 1)
MaxU128 ==
  Dec(<<3,4,0,2,8,2,3,6,6,9,2,0,9,3,8,4,6,3,4,6,3,3,7,4,6,0,7,4,3,1,7,6,8,2,1,1,4,5,5>>)

\* "0:0", "1:2", "2:1", "258:1", "<2^128-1>:0", "<2^128>:0", "1:<2^128+1>"
WellFormedIds ==
  { <<48, 58, 48>>, <<49, 58, 50>>, <<50, 58, 49>>, <<50, 53, 56, 58, 49>>,
    MaxU128 \o <<58, 48>>, Pow128 \o <<58, 48>>, <<49, 58>> \o Pow128Plus1 }

\* "1:-2", "1.5:2", " 1:2", "abc", ""
MalformedIds ==
  { <<49, 58, 45, 50>>, <<49, 46, 53, 58, 50>>, <<32, 49, 58, 50>>,
    <<97, 98, 99>>, <<>> }

Endians == {"le", "be"}

\* -------------------------------------------------------- record decoder
\* buf.toString("utf8"): an ASCII byte is its character; a byte that is no
\* valid UTF-8 (the inputs' only such byte is 0xFF) decodes to U+FFFD
toAscii(b) == [i \in 1..Len(b) |-> IF b[i] < 128 THEN b[i] ELSE 65533]

StartsWith(s, p) == Len(s) >= Len(p) /\ SubSeq(s, 1, Len(p)) = p

EndsWith(s, p) == Len(s) >= Len(p) /\ SubSeq(s, Len(s) - Len(p) + 1, Len(s)) = p

\* s.indexOf(m), 1-based; 0 when absent
IndexOf(s, m) ==
  LET hits == {i \in 1..(Len(s) - Len(m) + 1) : SubSeq(s, i, i + Len(m) - 1) = m}
  IN IF hits = {} THEN 0 ELSE CHOOSE i \in hits : \A j \in hits : i <= j

normalizeSuffix(keyAscii) ==
  LET idx == IndexOf(keyAscii, StorageMarker)
      s0 == IF idx > 0
            THEN SubSeq(keyAscii, idx + Len(StorageMarker), Len(keyAscii))
            ELSE keyAscii
      s1 == IF StartsWith(s0, <<47, 47>>) THEN Tail(s0) ELSE s0
  IN IF StartsWith(s1, <<47>>) THEN s1 ELSE <<47>> \o s1

\* "/length"
LenTag == <<47, 108, 101, 110, 103, 116, 104>>

contractKeyHex(kbuf) ==
  LET i == IndexOf(kbuf, StorageMarker)
      t0 == SubSeq(kbuf, i + Len(StorageMarker), Len(kbuf))
      t1 == IF StartsWith(t0, <<47, 47>>) THEN Tail(t0) ELSE t0
      t2 == IF EndsWith(t1, LenTag) THEN SubSeq(t1, 1, Len(t1) - Len(LenTag)) ELSE t1
  IN IF i = 0 THEN toHex(kbuf) ELSE toHex(t2)

RECURSIVE pretty(_)
pretty(b) ==
  IF b = <<>> THEN <<>>
  ELSE (IF Head(b) >= 32 /\ Head(b) < 127
        THEN <<Head(b)>>
        ELSE <<92, 120, HexChar(Head(b) \div 16), HexChar(Head(b) % 16)>>)
       \o pretty(Tail(b))

RECURSIVE Number(_)
\* Number(m[1]) of a string of decimal digits (exact below 2^53)
Number(ds) ==
  IF ds = <<>> THEN 0
  ELSE Number(SubSeq(ds, 1, Len(ds) - 1)) * 10 + (ds[Len(ds)] - 48)

\* the colon of /^(\d+):.../: one or more digits before it
RevColon(text) ==
  {c \in 2..Len(text) : text[c] = 58 /\ \A i \in 1..(c - 1) : IsDigit(text[i])}

\* where group 2 of /^(\d+):([0-9a-fA-F]+)0*$/ may end: one or more hex digits
\* after the colon at c, then only "0" to the end of the text
PayloadEnds(text, c) ==
  {h \in (c + 1)..Len(text) :
     /\ \A i \in (c + 1)..h : IsHexDigit(text[i])
     /\ \A i \in (h + 1)..Len(text) : text[i] = 48}

\* a lazy group 2, ([0-9a-fA-F]+?), ends at the first place that matches
LazyPayloadEnd(ends) == CHOOSE h \in ends : \A g \in ends : h <= g

\* the greedy group 2 ends at the last place that lets the rest match
PayloadEnd(ends) == CHOOSE h \in ends : \A g \in ends : h >= g

parseValue(buf) ==
  IF isPrintable(buf)
  THEN LET text == toAscii(buf)
           cs == RevColon(text)
           c == CHOOSE c \in cs : TRUE
           ends == IF cs = {} THEN {} ELSE PayloadEnds(text, c)
       IN IF ends # {}
          THEN [text |-> text,
                block |-> Number(SubSeq(text, 1, c - 1)),
                hex |-> toLowerCase(SubSeq(text, c + 1, PayloadEnd(ends)))]
          ELSE [text |-> text]
  ELSE [hex |-> toHex(buf)]

\* variant 2's copy of parseValue
decodeVal(buf) == parseValue(buf)

HasBlock(val) == "block" \in DOMAIN val

\* ---------------------------------------------------------------- parsers
\* A line of standard output is [fmt, khex, vhex]: fmt says which grammar the
\* line matches ("ldb": 0xKEY ==> 0xVALUE, "sst": 0xKEY @ SEQ: TYPE => 0xVALUE,
\* "junk": neither), khex and vhex are the two 0x... blobs as printed.
parseLdbLine(l) ==
  [kbuf |-> fromHex(l.khex), vbuf |-> fromHex(l.vhex),
   khex |-> toLowerCase(l.khex), vhex |-> toLowerCase(l.vhex)]

parseSstLine(l) ==
  [kbuf |-> BufferFromHex(Strip0x(l.khex)), vbuf |-> BufferFromHex(Strip0x(l.vhex)),
   khex |-> <<48, 120>> \o toLowerCase(Strip0x(l.khex)),
   vhex |-> <<48, 120>> \o toLowerCase(Strip0x(l.vhex))]

RECURSIVE ParseLines(_, _)
ParseLines(stdout, fmt) ==
  IF stdout = <<>> THEN <<>>
  ELSE (IF Head(stdout).fmt # fmt THEN <<>>
        ELSE IF fmt = "ldb" THEN <<parseLdbLine(Head(stdout))>>
        ELSE <<parseSstLine(Head(stdout))>>)
       \o ParseLines(Tail(stdout), fmt)

parseLdb(stdout) == ParseLines(stdout, "ldb")

parseSstDump(stdout) == ParseLines(stdout, "sst")

\* variant 2 keeps only the two buffers
Buffers(recs) == [i \in 1..Len(recs) |-> [kbuf |-> recs[i].kbuf, vbuf |-> recs[i].vbuf]]

parseLdb2(stdout) == Buffers(ParseLines(stdout, "ldb"))

parseSst(stdout) == Buffers(ParseLines(stdout, "sst"))

\* -------------------------------------------------------------- aggregator
EmptyAgg == [records |-> <<>>, bySuffix |-> <<>>, latestBySuffix |-> <<>>]

\* the record pushed by groupResults (variant 1)
Record1(r, suffix, valObj) ==
  [key |-> suffix, rawKey |-> [ascii |-> pretty(r.kbuf), hex |-> r.khex],
   value |-> valObj, valueHex |-> r.vhex]

\* the record pushed by aggregate (variant 2)
Record2(r, suffix, val) ==
  [key |-> suffix, contractKeyHex |-> contractKeyHex(r.kbuf),
   rawKey |-> [ascii |-> pretty(r.kbuf), hex |-> toHex(r.kbuf)],
   value |-> val, valueHex |-> toHex(r.vbuf)]

\* valObj.block >= cur.block: a tie replaces the entry
ReplacesOnTie(val, cur) == val.block >= cur.block

\* valObj.block > cur.block
Replaces(val, cur) == val.block > cur.block

\* one iteration of the loop of groupResults / aggregate
LoopBody(acc, r, v) ==
  LET suffix == normalizeSuffix(toAscii(r.kbuf))
      val == IF v = 1 THEN parseValue(r.vbuf) ELSE decodeVal(r.vbuf)
      rec == IF v = 1 THEN Record1(r, suffix, val) ELSE Record2(r, suffix, val)
      by == acc.bySuffix
      latest == acc.latestBySuffix
  IN [records |-> Append(acc.records, rec),
      bySuffix |->
        IF suffix \in DOMAIN by
        THEN [by EXCEPT ![suffix] = Append(@, val)]
        ELSE by @@ (suffix :> <<val>>),
      latestBySuffix |->
        IF HasBlock(val)
        THEN IF suffix \notin DOMAIN latest THEN latest @@ (suffix :> val)
             ELSE IF Replaces(val, latest[suffix])
                  THEN [latest EXCEPT ![suffix] = val]
                  ELSE latest
        ELSE latest]

RECURSIVE Fold(_, _, _)
Fold(acc, recs, v) ==
  IF recs = <<>> THEN acc ELSE Fold(LoopBody(acc, Head(recs), v), Tail(recs), v)

\* { count, records, bySuffix, latestBySuffix }
Result(acc) ==
  [count |-> Len(acc.records), records |-> acc.records,
   bySuffix |-> acc.bySuffix, latestBySuffix |-> acc.latestBySuffix]

groupResults(recs) == Result(Fold(EmptyAgg, recs, 1))

aggregate(records) == Result(Fold(EmptyAgg, records, 2))

\* ------------------------------------------------------------------- state
VARIABLES
  variant,    \* 1: dumpAlkane's server, 2: dump's server
  pc,         \* the request: "idle", "awaiting" (suspended in an await), "done"
  reqId,      \* req.params.alkaneId
  endian,     \* the endianness used
  prefix,     \* makePrefix's buffer (<<>> before it is derived)
  fromH,      \* --from
  toH,        \* --to
  step,       \* the fallback step whose promise the request awaits (0: none)
  invoked,    \* the steps whose subprocess was spawned, in order
  proc,       \* per step: "none", "running", "killed" (SIGKILL sent, not yet
              \* exited), "exited0", "exitedErr", "spawnfail" (spawn failed, its
              \* error event pending), "errored", "errclosed"
  timer,      \* per step, the timeout: "none", "armed", "cleared", "fired"
  promise,    \* per step: "none", "pending", "resolved", "rejected"
  out,        \* per step, the standard output captured so far (lines); once
              \* the promise is rejected nothing reads it and it is forgotten
  dirs,       \* the secondary directories that exist
  dirOf,      \* per step, the secondary directory it was given (0: none)
  made,       \* how many secondary directories were created
  response,   \* what the handler sent
  key,        \* key derivation: the store key probed
  inRange,    \* key derivation: whether the scan range holds the key
  kpc,        \* key derivation: "start", "derived", "probed"
  aggIn,      \* aggregator: the parsed records handed to it
  aggI,       \* aggregator: how many of them the loop has processed
  aggAcc      \* aggregator: records, bySuffix, latestBySuffix so far

reqVars == <<variant, pc, reqId, endian, prefix, fromH, toH, step, invoked,
             proc, timer, promise, out, dirs, dirOf, made, response>>

keyVars == <<key, inRange, kpc>>

aggVars == <<aggIn, aggI, aggAcc>>

vars == <<reqVars, keyVars, aggVars>>

Steps == 1..3

NoResponse == [status |-> 0]

\* ------------------------------------------------- the subprocess's output
\* "/storage/x" => "9:b": one raw pair, as its two hex blobs
KeyX == StorageMarker \o <<47, 120>>

\* "/storage/y"
KeyY == StorageMarker \o <<47, 121>>

JunkLine == [fmt |-> "junk", khex |-> <<>>, vhex |-> <<>>]

LdbLine(k, v) == [fmt |-> "ldb", khex |-> toHex(k), vhex |-> toHex(v)]

SstLine(k, v) == [fmt |-> "sst", khex |-> toHex(k), vhex |-> toHex(v)]

\* the lines a subprocess may print
Lines == {JunkLine, LdbLine(KeyX, <<57, 58, 98>>), SstLine(KeyY, <<0>>)}

\* ------------------------------------------------------ request lifecycle
RequestInit ==
  /\ variant \in {1, 2}
  /\ pc = "idle"
  /\ reqId = <<>>
  /\ endian = "le"
  /\ prefix = <<>>
  /\ fromH = <<>>
  /\ toH = <<>>
  /\ step = 0
  /\ invoked = <<>>
  /\ proc = [k \in Steps |-> "none"]
  /\ timer = [k \in Steps |-> "none"]
  /\ promise = [k \in Steps |-> "none"]
  /\ out = [k \in Steps |-> <<>>]
  /\ dirs = {}
  /\ dirOf = [k \in Steps |-> 0]
  /\ made = 0
  /\ response = NoResponse

KeyIdle == key = <<>> /\ inRange = FALSE /\ kpc = "off"

AggIdle == aggIn = <<>> /\ aggI = 0 /\ aggAcc = EmptyAgg

Init == RequestInit /\ KeyIdle /\ AggIdle

\* a promise settles once: resolve and reject of a settled promise do nothing
Settle(p, outcome) == IF p = "pending" THEN outcome ELSE p

\* what is kept of the captured output: a rejection carries an Error only
Captured(o, p) == IF p = "rejected" THEN <<>> ELSE o

\* clearTimeout(to)
ClearTimeout(t) == IF t = "armed" THEN "cleared" ELSE t

\* the continuation of an await runs before any other callback
Suspended == IF pc = "awaiting" THEN promise[step] = "pending" ELSE TRUE

Alive(k) == proc[k] \in {"running", "killed"}

\* spawn(cmd, args) of step k, the timer armed, the promise returned
Spawn(k, started) ==
  /\ proc' = [proc EXCEPT ![k] = IF started THEN "running" ELSE "spawnfail"]
  /\ timer' = [timer EXCEPT ![k] = "armed"]
  /\ promise' = [promise EXCEPT ![k] = "pending"]
  /\ invoked' = Append(invoked, k)
  /\ step' = k
  /\ pc' = "awaiting"

Respond(r) ==
  /\ response' = r
  /\ pc' = "done"
  /\ UNCHANGED <<proc, timer, promise, invoked, step>>

Ok(result) == [status |-> 200, result |-> result]

\* GET /dump/:alkaneId up to its first await
Request(id, e, authorized) ==
  /\ pc = "idle"
  /\ reqId' = id
  /\ UNCHANGED <<variant, out, keyVars, aggVars>>
  /\ IF ~authorized
     THEN /\ Respond([status |-> 401])
          /\ UNCHANGED <<endian, prefix, fromH, toH, dirs, dirOf, made>>
     ELSE IF ~MatchesIdRe(id)
     THEN /\ Respond([status |-> 400])
          /\ UNCHANGED <<endian, prefix, fromH, toH, dirs, dirOf, made>>
     ELSE /\ endian' = e
          /\ prefix' = makePrefix(id, e)
          /\ fromH' = ScanFrom(prefix')
          /\ toH' = ScanTo(prefix')
          /\ made' = made + 1
          /\ dirs' = dirs \cup {made'}
          /\ dirOf' = IF variant = 1 THEN [dirOf EXCEPT ![1] = made']
                      ELSE [k \in Steps |-> IF k < 3 THEN made' ELSE 0]
          /\ response' = response
          /\ \E started \in BOOLEAN : Spawn(1, started)

\* p.stdout.on("data", d => out += d), while the promise can still resolve
\* with out
Data(k, l) ==
  /\ Suspended
  /\ Alive(k)
  /\ promise[k] = "pending"
  /\ Len(out[k]) < MaxOut
  /\ out' = [out EXCEPT ![k] = Append(@, l)]
  /\ UNCHANGED <<variant, pc, reqId, endian, prefix, fromH, toH, step, invoked,
                 proc, timer, promise, dirs, dirOf, made, response, keyVars, aggVars>>

\* code !== 0 ? reject : resolve(out)
CloseSettles(code) == IF code = 0 THEN "resolved" ELSE "rejected"

\* p.on("close", code => ...): the process has exited and its output has ended
Close(k, code) ==
  /\ Suspended
  /\ \/ Alive(k)
     \/ proc[k] = "errored" /\ code # 0
  /\ proc' = [proc EXCEPT ![k] = IF @ = "errored" THEN "errclosed"
                                 ELSE IF code = 0 THEN "exited0" ELSE "exitedErr"]
  /\ timer' = [timer EXCEPT ![k] = ClearTimeout(@)]
  /\ promise' = [promise EXCEPT ![k] = Settle(@, CloseSettles(code))]
  /\ out' = [out EXCEPT ![k] = Captured(@, promise'[k])]
  /\ UNCHANGED <<variant, pc, reqId, endian, prefix, fromH, toH, step, invoked,
                 dirs, dirOf, made, response, keyVars, aggVars>>

\* p.on("error", ...): the spawn failed; variant 2 leaves the timer armed
SpawnError(k) ==
  /\ Suspended
  /\ proc[k] = "spawnfail"
  /\ proc' = [proc EXCEPT ![k] = "errored"]
  /\ timer' = [timer EXCEPT ![k] = IF variant = 1 THEN ClearTimeout(@) ELSE @]
  /\ promise' = [promise EXCEPT ![k] = Settle(@, "rejected")]
  /\ out' = [out EXCEPT ![k] = Captured(@, promise'[k])]
  /\ UNCHANGED <<variant, pc, reqId, endian, prefix, fromH, toH, step, invoked,
                 dirs, dirOf, made, response, keyVars, aggVars>>

\* the timeout resolves with what was captured
TimeoutResolves(k) ==
  /\ Suspended
  /\ timer[k] = "armed"
  /\ proc[k] # "spawnfail"
  /\ timer' = [timer EXCEPT ![k] = "fired"]
  /\ proc' = [proc EXCEPT ![k] = IF @ = "running" THEN "killed" ELSE @]
  /\ promise' = [promise EXCEPT ![k] = Settle(@, "resolved")]
  /\ out' = [out EXCEPT ![k] = Captured(@, promise'[k])]
  /\ UNCHANGED <<variant, pc, reqId, endian, prefix, fromH, toH, step, invoked,
                 dirs, dirOf, made, response, keyVars, aggVars>>

\* the timeout kills and leaves the rejection to the close event
TimeoutKillsOnly(k) ==
  /\ Suspended
  /\ timer[k] = "armed"
  /\ proc[k] # "spawnfail"
  /\ timer' = [timer EXCEPT ![k] = "fired"]
  /\ proc' = [proc EXCEPT ![k] = IF @ = "running" THEN "killed" ELSE @]
  /\ UNCHANGED <<variant, pc, reqId, endian, prefix, fromH, toH, step, invoked,
                 promise, out, dirs, dirOf, made, response, keyVars, aggVars>>

\* setTimeout(() => { p.kill("SIGKILL"); reject(...) }, timeoutMs)
Timeout(k) ==
  /\ Suspended
  /\ timer[k] = "armed"
  /\ proc[k] # "spawnfail"
  /\ timer' = [timer EXCEPT ![k] = "fired"]
  /\ proc' = [proc EXCEPT ![k] = IF @ = "running" THEN "killed" ELSE @]
  /\ promise' = [promise EXCEPT ![k] = Settle(@, "rejected")]
  /\ out' = [out EXCEPT ![k] = Captured(@, promise'[k])]
  /\ UNCHANGED <<variant, pc, reqId, endian, prefix, fromH, toH, step, invoked,
                 dirs, dirOf, made, response, keyVars, aggVars>>

\* if (recs.length) return even when it is 0
YieldsAlways(recs) == TRUE

\* if (recs1.length) return ...
Yields(recs) == Len(recs) > 0

\* dumpAlkane (with runLdbScan's finally) from one await to the next, or to
\* the handler's response
Continue1 ==
  /\ variant = 1
  /\ pc = "awaiting"
  /\ promise[step] \in {"resolved", "rejected"}
  /\ UNCHANGED <<variant, reqId, endian, prefix, fromH, toH, out, keyVars, aggVars>>
  /\ LET k == step
         ok == promise[k] = "resolved"
         swept == dirs \ {dirOf[k]}
     IN IF k < 3
        THEN IF ok /\ Yields(parseLdb(out[k]))
             THEN /\ Respond(Ok(groupResults(parseLdb(out[k]))))
                  /\ dirs' = swept
                  /\ UNCHANGED <<dirOf, made>>
             ELSE IF k = 1
             THEN /\ made' = made + 1
                  /\ dirs' = swept \cup {made'}
                  /\ dirOf' = [dirOf EXCEPT ![2] = made']
                  /\ response' = response
                  /\ \E started \in BOOLEAN : Spawn(2, started)
             ELSE /\ dirs' = swept
                  /\ UNCHANGED <<dirOf, made, response>>
                  /\ \E started \in BOOLEAN : Spawn(3, started)
        ELSE /\ UNCHANGED <<dirs, dirOf, made>>
             /\ IF ok
                THEN Respond(Ok(groupResults(parseSstDump(out[k]))))
                ELSE Respond(Ok(Result(EmptyAgg)))

\* dump from one await to the next, or to the handler's response
Continue2 ==
  /\ variant = 2
  /\ pc = "awaiting"
  /\ promise[step] \in {"resolved", "rejected"}
  /\ UNCHANGED <<variant, reqId, endian, prefix, fromH, toH, out, dirs, dirOf,
                 made, keyVars, aggVars>>
  /\ LET k == step
         ok == promise[k] = "resolved"
     IN IF k < 3
        THEN IF ok /\ Yields(parseLdb2(out[k]))
             THEN Respond(Ok(aggregate(parseLdb2(out[k]))))
             ELSE /\ response' = response
                  /\ \E started \in BOOLEAN : Spawn(k + 1, started)
        ELSE IF ok
             THEN Respond(Ok(aggregate(parseSst(out[k]))))
             ELSE Respond([status |-> 500])

\* the identifiers a request may carry: "1:2", "<2^128>:0", the malformed ones
RequestIds == {<<49, 58, 50>>, Pow128 \o <<58, 48>>} \cup MalformedIds

Next ==
  \/ \E id \in RequestIds, e \in Endians, a \in BOOLEAN : Request(id, e, a)
  \/ \E k \in Steps, l \in Lines : Data(k, l)
  \/ \E k \in Steps, code \in {0, 1} : Close(k, code)
  \/ \E k \in Steps : SpawnError(k)
  \/ \E k \in Steps : Timeout(k)
  \/ Continue1
  \/ Continue2

Spec == Init /\ [][Next]_vars

\* What Continue1 and Continue2 do to the request's position: the handler
\* leaves the await whose promise has settled, to respond or to await the
\* next step's subprocess
Resume ==
  /\ pc = "awaiting"
  /\ promise[step] \in {"resolved", "rejected"}
  /\ \/ pc' = "done" /\ step' = step
     \/ pc' = "awaiting" /\ step < 3 /\ step' = step + 1

\* The event loop runs what is due: an armed timer fires unless it is cleared,
\* a failed spawn reports its error, the continuation of a settled await runs.
\* Nothing makes a subprocess exit: Close and Data are not fair.
FairSpec ==
  /\ Spec
  /\ WF_<<pc, step>>(Resume)
  /\ \A k \in Steps : WF_vars(Timeout(k)) /\ WF_vars(SpawnError(k))

\* ------------------------------------------- key derivation, on its own
\* the bytes a store key may continue with after the prefix
TailBytes == {0, 47, 254, 255}

Tails == UNION {[1..n -> TailBytes] : n \in 0..MaxTail}

\* the buffer with its last byte changed by d
Bump(b, d) == [b EXCEPT ![Len(b)] = @ + d]

\* store keys around a prefix: keys that extend it, keys that extend a
\* neighbour of it, a key cut short of it, the empty key
ProbeKeys(pref) ==
  {pref \o t : t \in Tails}
    \cup {Bump(pref, 1) \o t : t \in Tails}
    \cup {Bump(pref, -1) \o t : t \in Tails}
    \cup {SubSeq(pref, 1, Len(pref) - 1), <<>>}

RequestIdle ==
  /\ pc = "off"
  /\ step = 0
  /\ invoked = <<>>
  /\ proc = [k \in Steps |-> "none"]
  /\ timer = [k \in Steps |-> "none"]
  /\ promise = [k \in Steps |-> "none"]
  /\ out = [k \in Steps |-> <<>>]
  /\ dirs = {}
  /\ dirOf = [k \in Steps |-> 0]
  /\ made = 0
  /\ response = NoResponse

KeyInit ==
  /\ RequestIdle
  /\ variant = 1
  /\ AggIdle
  /\ reqId \in WellFormedIds
  /\ endian \in Endians
  /\ prefix = <<>>
  /\ fromH = <<>>
  /\ toH = <<>>
  /\ key = <<>>
  /\ inRange = FALSE
  /\ kpc = "start"

\* const prefix = makePrefix(...); fromHex = toHex(prefix); toHexStr = ...
Derive ==
  /\ kpc = "start"
  /\ prefix' = makePrefix(reqId, endian)
  /\ fromH' = ScanFrom(prefix')
  /\ toH' = ScanTo(prefix')
  /\ kpc' = "derived"
  /\ UNCHANGED <<variant, pc, reqId, endian, step, invoked, proc, timer, promise,
                 out, dirs, dirOf, made, response, key, inRange, aggVars>>

\* the scan tool decides whether a store key is in [--from, --to)
Probe(k) ==
  /\ kpc = "derived"
  /\ key' = k
  /\ inRange' = InScan(k, fromH, toH)
  /\ kpc' = "probed"
  /\ UNCHANGED <<reqVars, aggVars>>

KeyNext == Derive \/ \E k \in ProbeKeys(prefix) : Probe(k)

SpecKey == KeyInit /\ [][KeyNext]_vars

\* ------------------------------------------------ aggregator, on its own
\* "/storage//x": the doubled separator
KeyXX == StorageMarker \o <<47, 47, 120>>

\* "z": a key without the marker
KeyZ == <<122>>

\* raw pairs <<key, value>>; the values are "5:a", "9:b", "3:d", "9:c0",
\* "12:ab00", "5:A", "x" and the byte 0x00
AggPairs ==
  { <<KeyX, <<53, 58, 97>>>>, <<KeyX, <<57, 58, 98>>>>, <<KeyX, <<51, 58, 100>>>>,
    <<KeyXX, <<57, 58, 99, 48>>>>, <<KeyZ, <<49, 50, 58, 97, 98, 48, 48>>>>,
    <<KeyY, <<53, 58, 65>>>>, <<KeyY, <<120>>>>, <<KeyY, <<0>>>> }

PairSeqs == UNION {[1..n -> AggPairs] : n \in 0..MaxRecs}

\* the scan's output for a sequence of pairs, one line each
LinesOf(ps) == [i \in 1..Len(ps) |-> LdbLine(ps[i][1], ps[i][2])]

AggInit ==
  /\ RequestIdle
  /\ KeyIdle
  /\ reqId = <<>>
  /\ endian = "le"
  /\ prefix = <<>>
  /\ fromH = <<>>
  /\ toH = <<>>
  /\ variant \in {1, 2}
  /\ aggI = 0
  /\ aggAcc = EmptyAgg
  /\ \E ps \in PairSeqs :
       aggIn = IF variant = 1 THEN parseLdb(LinesOf(ps)) ELSE parseLdb2(LinesOf(ps))

\* for (const r of recs) { ... }: one iteration
AggIter ==
  /\ aggI < Len(aggIn)
  /\ aggAcc' = LoopBody(aggAcc, aggIn[aggI + 1], variant)
  /\ aggI' = aggI + 1
  /\ UNCHANGED <<reqVars, keyVars, aggIn>>

AggNext == AggIter

SpecAgg == AggInit /\ [][AggNext]_vars

\* ------------------------------------------------------------------ claims
Invoked(k) == \E i \in 1..Len(invoked) : invoked[i] = k

\* the records step k's parser finds in its captured output
Parsed(k) == IF k < 3 THEN parseLdb(out[k]) ELSE parseSstDump(out[k])

\* step k failed or parsed zero records
Exhausted(k) ==
  promise[k] = "rejected" \/ (promise[k] = "resolved" /\ Len(Parsed(k)) = 0)

\* the result built from step k's output alone
ResultOf(k) ==
  IF variant = 1 THEN groupResults(Parsed(k)) ELSE aggregate(Buffers(Parsed(k)))

\* C1: the subprocesses of a request are spawned in the order 1, 2, 3 and form a
\* prefix of it; step k+1 is spawned only if step k failed or parsed zero
\* records, and a finished request whose step k did so has spawned step k+1;
\* when step 3 succeeds its parsed output is the result, even if empty.
C1_FallbackOrder ==
  /\ invoked = SubSeq(<<1, 2, 3>>, 1, Len(invoked))
  /\ \A k \in 1..2 : Invoked(k + 1) => Exhausted(k)
  /\ \A k \in 1..2 : (pc = "done" /\ Invoked(k) /\ Exhausted(k)) => Invoked(k + 1)
  /\ (pc = "done" /\ Invoked(3) /\ promise[3] = "resolved") => response = Ok(ResultOf(3))

\* steps 1 and 2 both closed with exit code 0 and no record, step 3 ran and its
\* empty output is the result
C1_Witness ==
  /\ pc = "done"
  /\ invoked = <<1, 2, 3>>
  /\ promise = <<"resolved", "resolved", "resolved">>
  /\ out[1] # <<>>
  /\ response.status = 200
  /\ response.result.count = 0

\* C2: when step 3's subprocess fails, the request ends with an error, and an
\* empty successful result comes only from a step 3 that succeeded and parsed
\* zero records.
C2_Step3FailureIsError ==
  /\ (pc = "done" /\ Invoked(3) /\ promise[3] = "rejected") => response.status = 500
  /\ (pc = "done" /\ response.status = 200 /\ response.result.count = 0)
       => (promise[3] = "resolved" /\ Len(Parsed(3)) = 0)

\* C3: no finished request leaves a secondary directory behind.
C3_NoDirLeftBehind == pc = "done" => dirs = {}

\* C4: a timeout that fires kills the subprocess and fails the attempt (the
\* promise is rejected, never resolved); once the request has moved past a
\* timed-out step 1 or 2 the next step has been spawned, and no step is
\* spawned twice.
C4_TimeoutIsFailure ==
  \A k \in Steps :
    timer[k] = "fired" =>
      /\ proc[k] # "running"
      /\ promise[k] = "rejected"
      /\ (k < 3 /\ (pc = "done" \/ step # k)) => Invoked(k + 1)
      /\ Cardinality({i \in 1..Len(invoked) : invoked[i] = k}) = 1

\* steps 1 and 2 both timed out while their subprocess ran, and step 3 followed
C4_Witness ==
  /\ timer[1] = "fired"
  /\ timer[2] = "fired"
  /\ proc[1] \in {"killed", "exitedErr"}
  /\ proc[2] \in {"killed", "exitedErr"}
  /\ invoked = <<1, 2, 3>>

\* C5: at most one subprocess of a request is alive at any moment, and a
\* secondary directory exists as long as the subprocess using it is alive.
C5_OneSubprocessAtATime ==
  /\ Cardinality({k \in Steps : Alive(k)}) <= 1
  /\ \A k \in 1..2 : Alive(k) => dirOf[k] \in dirs

\* C6: a successful result is the result built from the output of one single
\* invocation that closed with exit code 0 before its timeout fired.
C6_ResultFromOneCleanRun ==
  (pc = "done" /\ response.status = 200) =>
    \E k \in Steps :
      /\ promise[k] = "resolved"
      /\ proc[k] = "exited0"
      /\ timer[k] # "fired"
      /\ response = Ok(ResultOf(k))

\* the suffix the aggregator groups a parsed record under
SuffixOf(r) == normalizeSuffix(toAscii(r.kbuf))

\* the decoded values of the records with suffix s, in their order
RECURSIVE ValuesUnder(_, _)
ValuesUnder(recs, s) ==
  IF recs = <<>> THEN <<>>
  ELSE (IF SuffixOf(Head(recs)) = s THEN <<parseValue(Head(recs).vbuf)>> ELSE <<>>)
       \o ValuesUnder(Tail(recs), s)

\* the places of the values that expose a block
Blocks(vals) == {i \in 1..Len(vals) : HasBlock(vals[i])}

\* the first place that holds the largest block
FirstMax(vals) ==
  CHOOSE i \in Blocks(vals) :
    /\ \A j \in Blocks(vals) : vals[j].block <= vals[i].block
    /\ \A j \in Blocks(vals) : vals[j].block = vals[i].block => i <= j

\* the suffixes of the input, and one that no input has ("/q")
Suffixes == {SuffixOf([kbuf |-> p[1]]) : p \in AggPairs} \cup {<<47, 113>>}

\* C7: after the loop has processed any number of raw pairs, for every suffix s
\* bySuffix[s] is the decoded values of the processed pairs with suffix s in
\* their order, latestBySuffix[s] exists exactly when one of them exposes a
\* block, and it is then the first of those with the largest block.
C7_AggregatorGroups ==
  LET done == SubSeq(aggIn, 1, aggI)
      by == aggAcc.bySuffix
      latest == aggAcc.latestBySuffix
  IN /\ DOMAIN by \subseteq Suffixes
     /\ DOMAIN latest \subseteq Suffixes
     /\ Len(aggAcc.records) = aggI
     /\ \A s \in Suffixes :
          LET vals == ValuesUnder(done, s)
          IN /\ (s \in DOMAIN by) = (vals # <<>>)
             /\ (s \in DOMAIN by) => by[s] = vals
             /\ (s \in DOMAIN latest) = (Blocks(vals) # {})
             /\ (s \in DOMAIN latest) => latest[s] = vals[FirstMax(vals)]

\* "/x" has seen the blocks 9, 5, 9 with two different values of block 9: the
\* latest is the first of them, and bySuffix holds all three
C7_Witness ==
  LET x == <<47, 120>>
  IN /\ aggI = 3
     /\ x \in DOMAIN aggAcc.bySuffix
     /\ Len(aggAcc.bySuffix[x]) = 3
     /\ aggAcc.bySuffix[x][1].block = 9
     /\ aggAcc.bySuffix[x][2].block = 5
     /\ aggAcc.bySuffix[x][3].block = 9
     /\ aggAcc.bySuffix[x][3] # aggAcc.bySuffix[x][1]
     /\ aggAcc.latestBySuffix[x] = aggAcc.bySuffix[x][1]

\* C8: a printable value "<digits>:<hex payload><zero padding>" decodes to the
\* block the digits spell and to the payload lowercased, the padding stripped
\* ("12:ab00" gives block 12 and hex "ab").
C8_DecodeStripsPadding ==
  \A i \in 1..aggI :
    LET buf == aggIn[i].vbuf
        text == toAscii(buf)
        cs == RevColon(text)
        c == CHOOSE c \in cs : TRUE
        ends == IF cs = {} THEN {} ELSE PayloadEnds(text, c)
        val == aggAcc.records[i].value
    IN (isPrintable(buf) /\ ends # {}) =>
         /\ val.text = text
         /\ val.block = Number(SubSeq(text, 1, c - 1))
         /\ val.hex = toLowerCase(SubSeq(text, c + 1, LazyPayloadEnd(ends)))

\* the components of the identifier the request carries
Components == parseAlkaneId(reqId)

\* C9: a request whose identifier has a component of more than 128 bits derives
\* no prefix and spawns nothing, and no identifier with other components
\* derives the prefix the request derived.
C9_OversizeRejected ==
  MatchesIdRe(reqId) =>
    /\ ~(FitsU128(Components[1]) /\ FitsU128(Components[2]))
         => (prefix = <<>> /\ invoked = <<>>)
    /\ prefix # <<>> =>
         \A id \in WellFormedIds :
           parseAlkaneId(id) # Components => makePrefix(id, endian) # prefix

\* C10 as stated: a key is in the scan range exactly when it has the prefix.
C10_RangeIsPrefix ==
  kpc = "probed" => (inRange = HasPrefix(key, prefix))

\* C10, amended: a key is in the scan range exactly when it has the prefix and
\* does not continue with the byte 0xFF right after it.
C10_RangeIsPrefixBelowFF ==
  kpc = "probed" =>
    (inRange = (/\ HasPrefix(key, prefix)
                /\ (Len(key) = Len(prefix) \/ key[Len(prefix) + 1] # 255)))

\* a key with the prefix followed by 0xFF was probed and is not in the range
C10_Witness ==
  /\ kpc = "probed"
  /\ HasPrefix(key, prefix)
  /\ Len(key) > Len(prefix)
  /\ key[Len(prefix) + 1] = 255
  /\ ~inRange

\* C11: a request that passed authentication and validation (it is suspended in
\* an await) eventually gets its response, the response once sent never
\* changes, and at most three subprocesses are spawned for it: ldb (steps 1
\* and 2) at most twice, sst_dump (step 3) at most once.
C11_EventuallyOneResponse ==
  /\ [](/\ Len(invoked) <= 3
        /\ Cardinality({i \in 1..Len(invoked) : invoked[i] < 3}) <= 2
        /\ Cardinality({i \in 1..Len(invoked) : invoked[i] = 3}) <= 1)
  /\ [][response # NoResponse => response' = response]_vars
  /\ (pc = "awaiting") ~> (pc = "done" /\ response # NoResponse)

\* the request was answered although none of its three subprocesses has exited
C11_Witness ==
  /\ pc = "done"
  /\ response # NoResponse
  /\ invoked = <<1, 2, 3>>
  /\ proc = <<"killed", "killed", "killed">>
====
